---- MODULE Spec2Model ----
(***************************************************************************)
(* Model of package ipx (collapse.go): Collapse with its IPv4 and IPv6     *)
(* instantiations, Supernet and Broadcast.                                 *)
(*                                                                         *)
(* Addresses are scaled from 32 / 128 bits down to AddrBits bits; all      *)
(* fixed-width arithmetic is done modulo 2^AddrBits, so a shift by the     *)
(* full width yields 0 exactly as in Go.  The prefix length keeps its      *)
(* uint8 width (modulo 256).                                               *)
(***************************************************************************)
EXTENDS Integers, Sequences, FiniteSets, TLC

\* Width of an address in bits (32 and 128 in the program, scaled down).
AddrBits == 2
\* Longest list handed to Collapse.
MaxNets == 2
\* Range of the uint8 prefix field of ip4Net / ip6Net.
Uint8Mod == 256

RECURSIVE Pow2(_)
Pow2(k) == IF k <= 0 THEN 1 ELSE 2 * Pow2(k - 1)

\* Number of values of an address word.
AddrMod == Pow2(AddrBits)

(***************************************************************************)
(* Go's operators on uint32 (the address word of ip4Net).                  *)
(***************************************************************************)
RECURSIVE BitAnd(_, _)
BitAnd(a, b) ==
    IF a = 0 \/ b = 0 THEN 0
    ELSE (a % 2) * (b % 2) + 2 * BitAnd(a \div 2, b \div 2)

BitOr(a, b) == a + b - BitAnd(a, b)

BitNot(a) == AddrMod - 1 - a

\* a &^ b
BitAndNot(a, b) == BitAnd(a, BitNot(b))

\* a << k on an address word: bits shifted out are dropped, k >= width gives 0.
Shl(a, k) == IF k < 0 \/ k >= AddrBits THEN 0 ELSE (a * Pow2(k)) % AddrMod

\* a - b on an address word, wrapping.
Sub(a, b) == (a - b + AddrMod) % AddrMod

\* uint8 subtraction, wrapping.
Sub8(a, b) == (a - b + Uint8Mod) % Uint8Mod

(***************************************************************************)
(* The uint128 value type (the address word of ip6Net).  Its methods take  *)
(* the receiver by value and return the new value; the receiver is never   *)
(* changed.                                                                *)
(***************************************************************************)
\* uint128{0, 1}
U128One == 1

U128And(u, other) == BitAnd(u, other)

U128Or(u, other) == BitOr(u, other)

U128Not(u) == BitNot(u)

U128Lsh(u, bits) == IF bits < 0 \/ bits >= AddrBits THEN 0 ELSE (u * Pow2(bits)) % AddrMod

U128Minus(u, other) == (u - other + AddrMod) % AddrMod

\* -1, 0, 1
U128Cmp(u, other) == IF u < other THEN 0 - 1 ELSE IF u > other THEN 1 ELSE 0

(***************************************************************************)
(* net.IP, net.IPMask and net.IPNet.  An IP or mask is its big-endian bit  *)
(* string; len is the length of the address in bytes, 4 or 16.             *)
(***************************************************************************)
IPv4len == 4
IPv6len == 16

BitStrings == [1 .. AddrBits -> {0, 1}]

\* net.CIDRMask(ones, bits)
CIDRMask(ones) == [i \in 1 .. AddrBits |-> IF i <= ones THEN 1 ELSE 0]

\* IPMask.Size(): the number of leading ones; 0 for a mask that is not canonical.
MaskSize(mask) ==
    IF \E n \in 0 .. AddrBits : mask = CIDRMask(n)
    THEN CHOOSE n \in 0 .. AddrBits : mask = CIDRMask(n)
    ELSE 0

\* to32 / to128: big-endian bytes to the address word.
ToWord(ip) ==
    LET acc[i \in 0 .. AddrBits] == IF i = 0 THEN 0 ELSE 2 * acc[i - 1] + ip[i]
    IN  acc[AddrBits]

\* from32 / from128: the address word to big-endian bytes.
FromWord(w) == [i \in 1 .. AddrBits |-> (w \div Pow2(AddrBits - i)) % 2]

to32(ip) == ToWord(ip)
from32(w) == FromWord(w)
to128(ip) == ToWord(ip)
from128(w) == FromWord(w)

IPNets ==
    [IP : BitStrings, Mask : {CIDRMask(n) : n \in 0 .. AddrBits}, len : {IPv4len, IPv6len}]

\* ipN.IP.To4() != nil
IsIP4(ipN) == ipN.len = IPv4len

(***************************************************************************)
(* ip4Net                                                                  *)
(***************************************************************************)
newIP4Net(ipN) == [addr |-> to32(ipN.IP), prefix |-> MaskSize(ipN.Mask) % Uint8Mod]

ip4Net_super(n) ==
    [addr   |-> BitAndNot(n.addr, Shl(1, Sub8(AddrBits, n.prefix))),
     prefix |-> Sub8(n.prefix, 1)]

ip4Net_mask(n) == BitNot(Sub(Shl(1, Sub8(AddrBits, n.prefix)), 1))

ip4Net_asNet(n) == [IP |-> from32(n.addr), Mask |-> from32(ip4Net_mask(n)), len |-> IPv4len]

ip4Nets_Less(a, b) == a.addr < b.addr

(***************************************************************************)
(* ip6Net                                                                  *)
(***************************************************************************)
newIP6Net(ipN) == [addr |-> to128(ipN.IP), prefix |-> MaskSize(ipN.Mask) % Uint8Mod]

ip6Net_super(n) ==
    [addr   |-> U128And(n.addr, U128Not(U128Lsh(U128One, AddrBits - n.prefix))),
     prefix |-> Sub8(n.prefix, 1)]

ip6Net_mask(n) == U128Not(U128Minus(U128Lsh(U128One, AddrBits - n.prefix), U128One))

ip6Net_asNet(n) == [IP |-> from128(n.addr), Mask |-> from128(ip6Net_mask(n)), len |-> IPv6len]

ip6Nets_Less(a, b) == U128Cmp(a.addr, b.addr) = 0 - 1

(***************************************************************************)
(* collapse4.  supers is the map[ip4Net]ip4Net, held as a set of           *)
(* [key, val] entries with distinct keys.                                  *)
(***************************************************************************)
convert4(toMerge) == [i \in 1 .. Len(toMerge) |-> newIP4Net(toMerge[i])]

\* LoopBody4 with the push of the merged parent left out.
LoopBody4NoPush(nets, supers) ==
    LET n    == nets[Len(nets)]
        rest == SubSeq(nets, 1, Len(nets) - 1)
        s    == ip4Net_super(n)
        hit  == {e \in supers : e.key = s}
    IN  IF hit = {}
        THEN [nets |-> rest, supers |-> supers \cup {[key |-> s, val |-> n]}]
        ELSE IF (CHOOSE e \in hit : TRUE).val = n
        THEN [nets |-> rest, supers |-> supers]
        ELSE [nets |-> rest, supers |-> supers \ hit]

\* One iteration of the loop over the work stack: the new stack and map.
LoopBody4(nets, supers) ==
    LET n    == nets[Len(nets)]
        rest == SubSeq(nets, 1, Len(nets) - 1)
        s    == ip4Net_super(n)
        hit  == {e \in supers : e.key = s}
    IN  IF hit = {}
        THEN [nets |-> rest, supers |-> supers \cup {[key |-> s, val |-> n]}]
        ELSE IF (CHOOSE e \in hit : TRUE).val = n
        THEN [nets |-> rest, supers |-> supers]
        ELSE [nets |-> Append(rest, s), supers |-> supers \ hit]

\* The orders in which ranging over the map and sort.Sort can leave merged:
\* every arrangement of the map's values that Less accepts as sorted.
Merged4(supers) ==
    LET k == Cardinality(supers)
        arr == {f \in [1 .. k -> supers] : \A i, j \in 1 .. k : i # j => f[i] # f[j]}
    IN  {[i \in 1 .. k |-> f[i].val] : f \in
            {g \in arr : \A i, j \in 1 .. k : i < j => ~ip4Nets_Less(g[j].val, g[i].val)}}

RECURSIVE Coalesce4From(_, _, _, _, _)
Coalesce4From(merged, i, lastMask, lastAddr, result) ==
    IF i > Len(merged) THEN result
    ELSE LET m == merged[i]
         IN  IF lastAddr = BitAnd(m.addr, lastMask)
             THEN Coalesce4From(merged, i + 1, lastMask, lastAddr, result)
             ELSE Coalesce4From(merged, i + 1, ip4Net_mask(m), m.addr,
                                Append(result, ip4Net_asNet(m)))

\* The pass over merged, merged non-empty.
Coalesce4(merged) ==
    Coalesce4From(merged, 2, ip4Net_mask(merged[1]), merged[1].addr,
                  <<ip4Net_asNet(merged[1])>>)

RECURSIVE Loop4(_, _)
Loop4(nets, supers) ==
    IF Len(nets) = 0 THEN supers
    ELSE LET r == LoopBody4(nets, supers) IN Loop4(r.nets, r.supers)

\* Every list collapse4 can return for toMerge.
collapse4(toMerge) == {Coalesce4(m) : m \in Merged4(Loop4(convert4(toMerge), {}))}

(***************************************************************************)
(* collapse6                                                               *)
(***************************************************************************)
convert6(toMerge) == [i \in 1 .. Len(toMerge) |-> newIP6Net(toMerge[i])]

LoopBody6(nets, supers) ==
    LET n    == nets[Len(nets)]
        rest == SubSeq(nets, 1, Len(nets) - 1)
        s    == ip6Net_super(n)
        hit  == {e \in supers : e.key = s}
    IN  IF hit = {}
        THEN [nets |-> rest, supers |-> supers \cup {[key |-> s, val |-> n]}]
        ELSE IF (CHOOSE e \in hit : TRUE).val = n
        THEN [nets |-> rest, supers |-> supers]
        ELSE [nets |-> Append(rest, s), supers |-> supers \ hit]

Merged6(supers) ==
    LET k == Cardinality(supers)
        arr == {f \in [1 .. k -> supers] : \A i, j \in 1 .. k : i # j => f[i] # f[j]}
    IN  {[i \in 1 .. k |-> f[i].val] : f \in
            {g \in arr : \A i, j \in 1 .. k : i < j => ~ip6Nets_Less(g[j].val, g[i].val)}}

RECURSIVE Coalesce6From(_, _, _, _, _)
Coalesce6From(merged, i, lastMask, lastAddr, result) ==
    IF i > Len(merged) THEN result
    ELSE LET m == merged[i]
         IN  IF lastAddr = U128And(m.addr, lastMask)
             THEN Coalesce6From(merged, i + 1, lastMask, lastAddr, result)
             ELSE Coalesce6From(merged, i + 1, ip6Net_mask(m), m.addr,
                                Append(result, ip6Net_asNet(m)))

Coalesce6(merged) ==
    Coalesce6From(merged, 2, ip6Net_mask(merged[1]), merged[1].addr,
                  <<ip6Net_asNet(merged[1])>>)

RECURSIVE Loop6(_, _)
Loop6(nets, supers) ==
    IF Len(nets) = 0 THEN supers
    ELSE LET r == LoopBody6(nets, supers) IN Loop6(r.nets, r.supers)

collapse6(toMerge) == {Coalesce6(m) : m \in Merged6(Loop6(convert6(toMerge), {}))}

(***************************************************************************)
(* Collapse: the family check and the dispatch.                            *)
(***************************************************************************)
ErrVersions == "all versions must be the same"
ErrPrefix == "new prefix must be less than current"
ErrIndex == "index out of range"

\* VersionsDiffer with the loop started one entry late, over toMerge[2:].
VersionsDifferFromThird(toMerge) ==
    LET four == IsIP4(toMerge[1])
    IN  \E i \in 3 .. Len(toMerge) : four # IsIP4(toMerge[i])

\* The loop over toMerge[1:], toMerge non-empty: some entry is of the other family.
VersionsDiffer(toMerge) ==
    LET four == IsIP4(toMerge[1])
    IN  \E i \in 2 .. Len(toMerge) : four # IsIP4(toMerge[i])

\* Every list Collapse can return for a non-empty list of one family.
CollapseResults(toMerge) ==
    IF IsIP4(toMerge[1]) THEN collapse4(toMerge) ELSE collapse6(toMerge)

(***************************************************************************)
(* Supernet and Broadcast                                                  *)
(***************************************************************************)
SupernetPanics(ipN, newPrefix) ==
    LET ones == MaskSize(ipN.Mask)
        bits == AddrBits
    IN  newPrefix < 0 \/ newPrefix > ones \/ newPrefix > bits

Supernet(ipN, newPrefix) ==
    LET bits == AddrBits
    IN  IF IsIP4(ipN)
        THEN LET ip == BitAnd(to32(ipN.IP),
                              Shl(Sub(Shl(1, newPrefix), 1), bits - newPrefix))
             IN  [IP |-> from32(ip), Mask |-> CIDRMask(newPrefix), len |-> IPv4len]
        ELSE LET ip     == to128(ipN.IP)
                 mask   == U128One
                 \* the four calls below return values that the code drops
                 drop1  == U128Lsh(mask, newPrefix)
                 drop2  == U128Minus(mask, U128One)
                 drop3  == U128Lsh(mask, bits - newPrefix)
                 drop4  == U128And(ip, mask)
             IN  [IP |-> from128(ip), Mask |-> CIDRMask(newPrefix), len |-> IPv6len]

Broadcast(a) ==
    LET ones == MaskSize(a.Mask)
        bits == AddrBits
    IN  IF IsIP4(a)
        THEN from32(BitOr(to32(a.IP), Sub(Shl(1, bits - ones), 1)))
        ELSE LET ip       == to128(a.IP)
                 hostMask == U128One
                 \* the three calls below return values that the code drops
                 drop1    == U128Lsh(hostMask, bits - ones)
                 drop2    == U128Minus(hostMask, U128One)
                 drop3    == U128Or(ip, hostMask)
             IN  from128(ip)

(***************************************************************************)
(* The state: one call of Collapse, Supernet or Broadcast, with the local  *)
(* variables of collapse4 / collapse6.                                     *)
(***************************************************************************)
VARIABLES op, toMerge, ipN, newPrefix, pc, nets, supers, merged, result, err

vars == <<op, toMerge, ipN, newPrefix, pc, nets, supers, merged, result, err>>

None == "none"

Lists == UNION {[1 .. n -> IPNets] : n \in 0 .. MaxNets}

NewPrefixes == (0 - 1) .. (AddrBits + 1)

InitCollapse ==
    /\ op = "Collapse"
    /\ toMerge \in Lists
    /\ ipN = None
    /\ newPrefix = 0

InitSupernet ==
    /\ op = "Supernet"
    /\ toMerge = <<>>
    /\ ipN \in IPNets
    /\ newPrefix \in NewPrefixes

InitBroadcast ==
    /\ op = "Broadcast"
    /\ toMerge = <<>>
    /\ ipN \in IPNets
    /\ newPrefix = 0

Init ==
    /\ InitCollapse \/ InitSupernet \/ InitBroadcast
    /\ pc = "call"
    /\ nets = <<>>
    /\ supers = {}
    /\ merged = <<>>
    /\ result = None
    /\ err = None

\* Collapse, lines 10-24, up to the call of collapse4 / collapse6.
Collapse ==
    /\ op = "Collapse"
    /\ pc = "call"
    /\ IF Len(toMerge) = 0
       THEN /\ pc' = "done"
            /\ result' = <<>>
            /\ err' = err
       ELSE IF VersionsDiffer(toMerge)
       THEN /\ pc' = "panic"
            /\ err' = ErrVersions
            /\ result' = result
       ELSE /\ pc' = IF IsIP4(toMerge[1]) THEN "collapse4" ELSE "collapse6"
            /\ UNCHANGED <<result, err>>
    /\ UNCHANGED <<op, toMerge, ipN, newPrefix, nets, supers, merged>>

\* collapse4, lines 27-32.
Convert4 ==
    /\ pc = "collapse4"
    /\ nets' = convert4(toMerge)
    /\ supers' = {}
    /\ pc' = "loop4"
    /\ UNCHANGED <<op, toMerge, ipN, newPrefix, merged, result, err>>

\* collapse4, lines 33-50: one iteration.
Iterate4 ==
    /\ pc = "loop4"
    /\ Len(nets) > 0
    /\ LET r == LoopBody4(nets, supers)
       IN  /\ nets' = r.nets
           /\ supers' = r.supers
    /\ UNCHANGED <<op, toMerge, ipN, newPrefix, pc, merged, result, err>>

\* collapse4, lines 52-56.
Sort4 ==
    /\ pc = "loop4"
    /\ Len(nets) = 0
    /\ merged' \in Merged4(supers)
    /\ pc' = "merged4"
    /\ UNCHANGED <<op, toMerge, ipN, newPrefix, nets, supers, result, err>>

\* collapse4, lines 58-68.
Return4 ==
    /\ pc = "merged4"
    /\ IF Len(merged) = 0
       THEN /\ pc' = "panic"
            /\ err' = ErrIndex
            /\ result' = result
       ELSE /\ pc' = "done"
            /\ result' = Coalesce4(merged)
            /\ err' = err
    /\ UNCHANGED <<op, toMerge, ipN, newPrefix, nets, supers, merged>>

Convert6 ==
    /\ pc = "collapse6"
    /\ nets' = convert6(toMerge)
    /\ supers' = {}
    /\ pc' = "loop6"
    /\ UNCHANGED <<op, toMerge, ipN, newPrefix, merged, result, err>>

Iterate6 ==
    /\ pc = "loop6"
    /\ Len(nets) > 0
    /\ LET r == LoopBody6(nets, supers)
       IN  /\ nets' = r.nets
           /\ supers' = r.supers
    /\ UNCHANGED <<op, toMerge, ipN, newPrefix, pc, merged, result, err>>

Sort6 ==
    /\ pc = "loop6"
    /\ Len(nets) = 0
    /\ merged' \in Merged6(supers)
    /\ pc' = "merged6"
    /\ UNCHANGED <<op, toMerge, ipN, newPrefix, nets, supers, result, err>>

Return6 ==
    /\ pc = "merged6"
    /\ IF Len(merged) = 0
       THEN /\ pc' = "panic"
            /\ err' = ErrIndex
            /\ result' = result
       ELSE /\ pc' = "done"
            /\ result' = Coalesce6(merged)
            /\ err' = err
    /\ UNCHANGED <<op, toMerge, ipN, newPrefix, nets, supers, merged>>

CallSupernet ==
    /\ op = "Supernet"
    /\ pc = "call"
    /\ IF SupernetPanics(ipN, newPrefix)
       THEN /\ pc' = "panic"
            /\ err' = ErrPrefix
            /\ result' = result
       ELSE /\ pc' = "done"
            /\ result' = Supernet(ipN, newPrefix)
            /\ err' = err
    /\ UNCHANGED <<op, toMerge, ipN, newPrefix, nets, supers, merged>>

CallBroadcast ==
    /\ op = "Broadcast"
    /\ pc = "call"
    /\ pc' = "done"
    /\ result' = Broadcast(ipN)
    /\ UNCHANGED <<op, toMerge, ipN, newPrefix, nets, supers, merged, err>>

Next ==
    \/ Collapse
    \/ Convert4
    \/ Iterate4
    \/ Sort4
    \/ Return4
    \/ Convert6
    \/ Iterate6
    \/ Sort6
    \/ Return6
    \/ CallSupernet
    \/ CallBroadcast

Spec == Init /\ [][Next]_vars

\* The call runs to its return: no step is delayed forever.
FairSpec == Spec /\ WF_vars(Next)

(***************************************************************************)
(* Properties                                                              *)
(***************************************************************************)
Range(seq) == {seq[i] : i \in 1 .. Len(seq)}

Addrs == 0 .. (AddrMod - 1)

\* The addresses a network covers (net.IPNet.Contains).
Cover(ipNet) ==
    {a \in Addrs : BitAnd(a, ToWord(ipNet.Mask)) = BitAnd(ToWord(ipNet.IP), ToWord(ipNet.Mask))}

CoverAll(seq) == UNION {Cover(seq[i]) : i \in 1 .. Len(seq)}

Reorderings(seq) ==
    {[i \in 1 .. Len(seq) |-> seq[f[i]]] : f \in Permutations(1 .. Len(seq))}

\* Some two networks of the list are of different families.
Mixed(seq) == \E i, j \in 1 .. Len(seq) : seq[i].len # seq[j].len

\* Collapse has returned a list for a non-empty list of one family.
Collapsed == op = "Collapse" /\ pc = "done" /\ Len(toMerge) > 0

InLoop == pc \in {"loop4", "loop6"}

\* C1: the networks Collapse returns cover exactly the addresses its input
\* networks cover, whichever order the survivors come out of the map and sort.
CoveragePreserved == Collapsed => CoverAll(result) = CoverAll(toMerge)

\* C2: every reordering of the input list can only return the list that this
\* call returned.
OrderInvariance ==
    Collapsed => \A p \in Reorderings(toMerge) : CollapseResults(p) = {result}

\* C3: no two distinct networks of the output have the same prefix length
\* p >= 1 and the same address once masked to p - 1 bits.
Minimality ==
    Collapsed =>
        \A i, j \in 1 .. Len(result) :
            LET p == MaskSize(result[i].Mask)
                up == ToWord(CIDRMask(p - 1))
            IN  (result[i] # result[j] /\ p >= 1 /\ MaskSize(result[j].Mask) = p)
                    => BitAnd(ToWord(result[i].IP), up) # BitAnd(ToWord(result[j].IP), up)

\* C4: the output is sorted by ascending address and no two of its entries
\* cover a common address.
OutputShape ==
    Collapsed =>
        /\ \A i, j \in 1 .. Len(result) :
               i < j => ToWord(result[i].IP) <= ToWord(result[j].IP)
        /\ \A i, j \in 1 .. Len(result) :
               i # j => Cover(result[i]) \cap Cover(result[j]) = {}

\* C5: collapsing the output again returns the same networks, in some order.
Idempotence ==
    Collapsed => \A r \in CollapseResults(result) : Range(r) = Range(result)

\* C6: a list with networks of both families ends in the version panic with
\* nothing converted, merged or returned; a list of one family never panics;
\* the empty list returns the empty list.
FamilyGuard ==
    op = "Collapse" =>
        /\ Mixed(toMerge) =>
               /\ pc \in {"call", "panic"}
               /\ nets = <<>> /\ supers = {} /\ merged = <<>>
               /\ pc = "panic" => (err = ErrVersions /\ result = None)
        /\ ~Mixed(toMerge) => (pc # "panic" /\ err = None)
        /\ (toMerge = <<>> /\ pc # "call") => (pc = "done" /\ result = <<>>)

\* A list of MaxNets networks whose only network of the other family is the
\* last one has been refused.
FamilyGuardWitness ==
    /\ op = "Collapse" /\ pc = "panic" /\ err = ErrVersions
    /\ Len(toMerge) = MaxNets
    /\ \A i \in 1 .. (MaxNets - 1) : toMerge[i].len = toMerge[1].len
    /\ toMerge[MaxNets].len # toMerge[1].len

\* C7: Supernet(n, newPrefix), 0 <= newPrefix <= prefix(n), returns prefix
\* length newPrefix and n's address with the first newPrefix bits kept and
\* the others cleared.
SupernetTruncates ==
    (op = "Supernet" /\ pc # "call" /\ 0 <= newPrefix /\ newPrefix <= MaskSize(ipN.Mask)) =>
        /\ pc = "done"
        /\ result.Mask = CIDRMask(newPrefix)
        /\ result.IP = [i \in 1 .. AddrBits |-> IF i <= newPrefix THEN ipN.IP[i] ELSE 0]

\* C8: Broadcast(n) returns n's address with the first prefix(n) bits kept
\* and the others set.
BroadcastSetsHostBits ==
    (op = "Broadcast" /\ pc = "done") =>
        result = [i \in 1 .. AddrBits |-> IF i <= MaskSize(ipN.Mask) THEN ipN.IP[i] ELSE 1]

\* The sum of 2^prefix over the work stack: an iteration lowers it.
RECURSIVE StackWeight(_)
StackWeight(stack) ==
    IF Len(stack) = 0 THEN 0
    ELSE Pow2(stack[Len(stack)].prefix) + StackWeight(SubSeq(stack, 1, Len(stack) - 1))

\* C9: every iteration of the loop pops one network and pushes at most one,
\* of strictly shorter prefix; the loop reaches the empty stack with a
\* non-empty map, and a list of one family ends in no panic.
LoopTotality ==
    /\ [][(InLoop /\ nets' # nets) =>
            /\ Len(nets') <= Len(nets)
            /\ SubSeq(nets', 1, Len(nets) - 1) = SubSeq(nets, 1, Len(nets) - 1)
            /\ Len(nets') = Len(nets) => nets'[Len(nets)].prefix < nets[Len(nets)].prefix
            /\ StackWeight(nets') < StackWeight(nets)]_vars
    /\ [](InLoop /\ nets = <<>> => supers # {})
    /\ [](op = "Collapse" /\ ~Mixed(toMerge) => pc # "panic")
    /\ (pc \in {"collapse4", "collapse6"}) ~> (op = "Collapse" /\ pc = "done" /\ Len(result) > 0)

\* Two siblings were merged into a prefix-0 network and the loop has ended.
LoopTotalityWitness ==
    /\ InLoop /\ nets = <<>>
    /\ Len(toMerge) >= 2
    /\ \E e \in supers : e.val.prefix = 0
    /\ \A i \in 1 .. Len(toMerge) : MaskSize(toMerge[i].Mask) >= 1

\* C10: no network with a prefix length outside 0 .. AddrBits is a key of
\* the map or on the work stack.
PrefixZeroGuard ==
    /\ \A e \in supers : e.key.prefix \in 0 .. AddrBits
    /\ \A i \in 1 .. Len(nets) : nets[i].prefix \in 0 .. AddrBits

\* Every input address has no bit set beyond its prefix length.
PreMasked ==
    \A i \in 1 .. Len(toMerge) :
        BitAnd(ToWord(toMerge[i].IP), ToWord(toMerge[i].Mask)) = ToWord(toMerge[i].IP)

\* Minimality, output shape and idempotence hold of lists of pre-masked
\* networks: their failures need an input address with host bits set.
MinimalityPreMasked == PreMasked => Minimality
OutputShapePreMasked == PreMasked => OutputShape
IdempotencePreMasked == PreMasked => Idempotence

\* Supernet and Broadcast are right for 4-byte networks.
SupernetTruncates4 == (op = "Supernet" /\ IsIP4(ipN)) => SupernetTruncates
BroadcastSetsHostBits4 == (op = "Broadcast" /\ IsIP4(ipN)) => BroadcastSetsHostBits

====
